---------------------------- MODULE Spec2Model ----------------------------
(***************************************************************************)
(* A model of ca_source_extraction/pre_processing.py: the noise estimator  *)
(* (get_noise_fft, mean_psd), its parallel orchestrator                    *)
(* (get_noise_fft_parallel, fft_psd_parallel), the saturated-pixel filter  *)
(* (find_unsaturated_pixels), the autocovariance engine (axcov, nextpow2)  *)
(* and the time-constant fitter (estimate_time_constant).                  *)
(*                                                                         *)
(* Python arrays are 0-based; they are modelled as TLA+ sequences (1-based)*)
(* read through At, or as functions over 0..n-1.  A sequence built by a    *)
(* function constructor is followed by \o <<>>, which leaves its value     *)
(* unchanged and has TLC compute it once instead of at every use.          *)
(***************************************************************************)
EXTENDS Integers, Sequences, FiniteSets, TLC

VARIABLES
    fn,       \* the function the caller invokes
    args,     \* its arguments
    ret,      \* what the call produced: Pending, a return or a raise
    pc,       \* get_noise_fft_parallel: position of the calling thread
    pending,  \* get_noise_fft_parallel: blocks joblib has not dispatched yet
    workers,  \* get_noise_fft_parallel: state of each joblib worker thread
    sn_s,     \* get_noise_fft_parallel: the shared memmap buffer
    writes,   \* history: how often each index of sn_s was assigned
    failed,   \* history: some block raised
    names     \* the names bound in the module's global namespace

vars == <<fn, args, ret, pc, pending, workers, sn_s, writes, failed, names>>

----------------------------------------------------------------------------
(* Bounds of the model.                                                    *)

MaxN == 5          \* pixels of the movie handed to the orchestrator
MaxG == 3          \* n_pixels_per_process
MaxK == 2          \* n_processes
MaxT == 5          \* samples of a trace handed to get_noise_fft
SatPix == 2        \* pixels of the movie handed to find_unsaturated_pixels
SatT == 2          \* samples per pixel of that movie
MaxVal == 3        \* largest fluorescence value of that movie
AxT == 4           \* longest trace handed to axcov
AxVal == 2         \* largest sample of such a trace
ArN == 2           \* pixels of the movie handed to estimate_time_constant
MaxP == 2          \* largest AR order p
MaxLags == 2       \* largest lag depth
MaxSn == 2         \* largest noise level of pixel 0

----------------------------------------------------------------------------
(* Python helpers.                                                         *)

None == "None"
Pending == [kind |-> "pending"]
Return(v) == [kind |-> "return", val |-> v]
Raise(e) == [kind |-> "raise", err |-> e]

\* The names the module binds at import: its import statements and its defs.
\* The bare names fft, ifft and rfft, which axcov and the 1D branch of
\* get_noise_fft call, are not among them: a call looks them up in this
\* namespace when it runs and raises NameError unless something outside the
\* module has bound them there.
ModuleGlobals ==
    {"np", "griddata", "tempfile", "os", "Parallel", "delayed", "shutil",
     "interpolate_missing_data", "find_unsaturated_pixels", "get_noise_fft",
     "get_noise_fft_parallel", "fft_psd_parallel", "mean_psd",
     "estimate_time_constant", "axcov", "nextpow2", "preprocess_data"}

\* the transforms of numpy.fft, bound under their bare names
FftNames == {"fft", "ifft", "rfft"}

Namespaces == {ModuleGlobals, ModuleGlobals \cup FftNames}

\* what the variables of get_noise_fft_parallel hold during a call of
\* another function
NoOrchestrator ==
    /\ pc = "caller"
    /\ pending = <<>>
    /\ workers = <<>>
    /\ sn_s = <<>>
    /\ writes = <<>>
    /\ failed = FALSE

\* s[i] for a Python (0-based) index i
At(s, i) == s[i + 1]

\* len(range(start, stop, step)) and len(np.arange(start, stop, step))
RangeLen(start, stop, step) ==
    IF step > 0
    THEN IF stop <= start THEN 0 ELSE (stop - start + step - 1) \div step
    ELSE IF stop >= start THEN 0 ELSE (start - stop - step - 1) \div (0 - step)

\* range(start, stop, step) as a sequence
Range(start, stop, step) ==
    [j \in 1..RangeLen(start, stop, step) |-> start + (j - 1) * step]

----------------------------------------------------------------------------
(* get_noise_fft_parallel and fft_psd_parallel.                            *)
(*                                                                         *)
(* The movie Y is immutable and its rows are named by their pixel index.   *)
(* The noise value of a pixel is the application of the pure function      *)
(* get_noise_fft to its row, band and averaging method; it is kept here as *)
(* that application, <<pixel, noise_range, noise_method>>, so two entries  *)
(* are equal exactly when they were computed from the same row with the    *)
(* same parameters.  Bands are in hundredths.                              *)

DefaultRange == <<25, 50>>
DefaultMethod == "logmexp"
Methods == {"mean", "median", "logmexp"}
Bands == {<<25, 50>>, <<0, 50>>}

\* **kwargs: a keyword the caller did not pass is NoRange / None
NoRange == <<>>
KwargsSet == [noise_range : Bands \cup {NoRange}, noise_method : Methods \cup {None}]
NoKwargs == [noise_range |-> NoRange, noise_method |-> None]

\* binding of get_noise_fft's parameters from **kwargs and its defaults
EffRange(kw) == IF kw.noise_range = NoRange THEN DefaultRange ELSE kw.noise_range
EffMethod(kw) == IF kw.noise_method = None THEN DefaultMethod ELSE kw.noise_method

\* get_noise_fft on row px of Y, as an application
NoiseOf(px, kw) == <<px, EffRange(kw), EffMethod(kw)>>

\* a freshly created memmap (mode 'w+') reads as zeros
Zero == <<-1, <<0, 0>>, "zero">>

\* (mutation) the last full block is dropped: range(0, N - G, G)
pixel_groups_short(N, G) == Range(0, N - G, G)

pixel_groups(N, G) == Range(0, N - G + 1, G)

pixels_remaining(N, G) == N % G

\* fft_psd_parallel, first statement pair: idxs and res = get_noise_fft(Y[idxs], **kwargs)
fft_psd_res(i, num_pixels, kw) == [j \in 1..num_pixels |-> NoiseOf(i + j - 1, kw)]

\* fft_psd_parallel, last statement: sn_s[idxs] = res
fft_psd_store(buf, i, num_pixels, res) ==
    [x \in DOMAIN buf |->
        IF x >= i /\ x < i + num_pixels THEN res[x - i + 1] ELSE buf[x]]

Bump(cnt, i, num_pixels) ==
    [x \in DOMAIN cnt |->
        IF x >= i /\ x < i + num_pixels THEN cnt[x] + 1 ELSE cnt[x]]

\* the keyword arguments the remainder call passes on to fft_psd_parallel
remainder_kwargs(kw) == NoKwargs

Idle == [st |-> "idle", i |-> 0, n |-> 0, res |-> <<>>]

\* (mutation) a task's exception is swallowed
parallel_returns_swallow(pend, wk, fl) ==
    /\ pend = <<>>
    /\ \A w \in DOMAIN wk : wk[w].st \in {"idle", "raised"}

\* the Parallel(...) call returns normally: every task ran and none raised
parallel_returns(pend, wk, fl) ==
    /\ pend = <<>>
    /\ \A w \in DOMAIN wk : wk[w].st = "idle"
    /\ ~fl

\* where the calling thread goes after the synchronous remainder block
after_remainder(ok) == IF ok THEN "copy" ELSE "raised"

InitPar ==
    /\ fn = "get_noise_fft_parallel"
    /\ \E N \in 1..MaxN, G \in 1..MaxG, K \in 1..MaxK, kw \in KwargsSet :
          /\ args = [N |-> N, n_pixels_per_process |-> G, n_processes |-> K,
                     kwargs |-> kw]
          /\ pending = pixel_groups(N, G)
          /\ workers = [w \in 1..K |-> Idle]
          /\ sn_s = [x \in 0..(N - 1) |-> Zero]
          /\ writes = [x \in 0..(N - 1) |-> 0]
    /\ ret = Pending
    /\ pc = "parallel"
    /\ failed = FALSE
    /\ names = ModuleGlobals

\* a worker thread takes the next task and runs fft_psd_parallel up to the
\* call of get_noise_fft, which returns or raises
WorkerCompute(w) ==
    /\ pc = "parallel"
    /\ workers[w].st = "idle"
    /\ pending # <<>>
    /\ pending' = Tail(pending)
    /\ \E ok \in BOOLEAN :
          IF ok
          THEN /\ workers' = [workers EXCEPT ![w] =
                      [st |-> "computed", i |-> Head(pending),
                       n |-> args.n_pixels_per_process,
                       res |-> fft_psd_res(Head(pending),
                                           args.n_pixels_per_process,
                                           args.kwargs)]]
               /\ failed' = failed
          ELSE /\ workers' = [workers EXCEPT ![w] = [Idle EXCEPT !.st = "raised"]]
               /\ failed' = TRUE
    /\ UNCHANGED <<names, fn, args, ret, pc, sn_s, writes>>

\* the worker stores its block into the shared buffer (one step: the
\* entries of a block are assigned by this worker alone)
WorkerStore(w) ==
    /\ workers[w].st = "computed"
    /\ sn_s' = fft_psd_store(sn_s, workers[w].i, workers[w].n, workers[w].res)
    /\ writes' = Bump(writes, workers[w].i, workers[w].n)
    /\ workers' = [workers EXCEPT ![w] = Idle]
    /\ UNCHANGED <<names, fn, args, ret, pc, pending, failed>>

\* Parallel(...)(...) returns to the caller
ParallelJoin ==
    /\ pc = "parallel"
    /\ parallel_returns(pending, workers, failed)
    /\ pc' = "remainder"
    /\ UNCHANGED <<names, fn, args, ret, pending, workers, sn_s, writes, failed>>

\* Parallel(...)(...) re-raises the exception of a task in the caller
ParallelRaise ==
    /\ pc = "parallel"
    /\ failed
    /\ pc' = "raised"
    /\ ret' = Raise("BlockError")
    /\ UNCHANGED <<names, fn, args, pending, workers, sn_s, writes, failed>>

\* the remainder block, run by the calling thread
Remainder ==
    /\ pc = "remainder"
    /\ LET N == args.N
           rem == pixels_remaining(N, args.n_pixels_per_process)
       IN  IF rem > 0
           THEN \E ok \in BOOLEAN :
                  /\ pc' = after_remainder(ok)
                  /\ failed' = (failed \/ ~ok)
                  /\ IF ok
                     THEN /\ sn_s' = fft_psd_store(sn_s, N - rem, rem,
                                        fft_psd_res(N - rem, rem,
                                                    remainder_kwargs(args.kwargs)))
                          /\ writes' = Bump(writes, N - rem, rem)
                          /\ ret' = ret
                     ELSE /\ ret' = Raise("BlockError")
                          /\ UNCHANGED <<sn_s, writes>>
           ELSE /\ pc' = "copy"
                /\ UNCHANGED <<ret, sn_s, writes, failed>>
    /\ UNCHANGED <<names, fn, args, pending, workers>>

\* sn_s = np.array(sn_s)
CopyOut ==
    /\ pc = "copy"
    /\ pc' = "cleanup"
    /\ ret' = [kind |-> "copied", val |-> sn_s]
    /\ UNCHANGED <<names, fn, args, pending, workers, sn_s, writes, failed>>

\* shutil.rmtree(folder), re-raised when it fails; return sn_s
Cleanup ==
    /\ pc = "cleanup"
    /\ \E ok \in BOOLEAN :
          IF ok
          THEN /\ pc' = "returned"
               /\ ret' = Return(ret.val)
          ELSE /\ pc' = "raised"
               /\ ret' = Raise("OSError")
    /\ UNCHANGED <<names, fn, args, pending, workers, sn_s, writes, failed>>

NextPar ==
    \/ \E w \in DOMAIN workers : WorkerCompute(w)
    \/ \E w \in DOMAIN workers : WorkerStore(w)
    \/ ParallelJoin
    \/ ParallelRaise
    \/ Remainder
    \/ CopyOut
    \/ Cleanup

SpecPar == InitPar /\ [][NextPar]_vars

----------------------------------------------------------------------------
(* Claims about get_noise_fft_parallel.                                    *)

Pixels == 0..(args.N - 1)

\* C1: when get_noise_fft_parallel returns, the entry of every pixel i is
\* get_noise_fft of row i with the band and the method the caller passed,
\* the pixels of the remainder block included.
C1_ParallelEqualsSerial ==
    pc = "returned" =>
        \A i \in Pixels : ret.val[i] = NoiseOf(i, args.kwargs)

\* C2: no index of the shared buffer is ever assigned twice, under any
\* interleaving; the buffer is copied out only once no block is pending or
\* running, and the copy holds, at every index of [0, N), the one value
\* stored there for that pixel.
C2_EveryIndexWrittenOnce ==
    /\ \A i \in Pixels : writes[i] <= 1
    /\ ret.kind \in {"copied", "return"} =>
          /\ pending = <<>>
          /\ \A w \in DOMAIN workers : workers[w].st = "idle"
          /\ pc \in {"cleanup", "returned"}
          /\ DOMAIN ret.val = Pixels
          /\ \A i \in Pixels : writes[i] = 1 /\ ret.val[i] = sn_s[i]
                                /\ ret.val[i][1] = i

\* a normal return of a run with dispatched blocks on several workers and a
\* remainder block
C2_Witness ==
    /\ pc = "returned"
    /\ ret.kind = "return"
    /\ args.N > 2 * args.n_pixels_per_process
    /\ args.N % args.n_pixels_per_process # 0
    /\ args.n_processes > 1

\* C3: once a block has raised, the call never copies out or returns a
\* buffer: the Parallel call cannot return normally, and when the call
\* ends it ends by raising the block's error; a buffer that is returned
\* comes from a run in which no block raised and has no unwritten entry.
C3_FailFast ==
    /\ failed =>
          /\ ret.kind \notin {"copied", "return"}
          /\ pc \in {"parallel", "raised"}
          /\ ~parallel_returns(pending, workers, failed)
          /\ pc = "raised" => ret = Raise("BlockError")
    /\ pc = "returned" =>
          /\ ~failed
          /\ \A i \in Pixels : ret.val[i] # Zero

\* the call has raised after a block failed, leaving the buffer partly written
C3_Witness ==
    /\ failed
    /\ pc = "raised"
    /\ \E i \in Pixels : writes[i] = 1
    /\ \E i \in Pixels : writes[i] = 0

----------------------------------------------------------------------------
(* get_noise_fft and mean_psd.                                             *)
(*                                                                         *)
(* A call is described by the number of dimensions of Y, the length T of   *)
(* its last axis, the band (in hundredths) and the method.  The power of   *)
(* bin k of the one-sided spectrum is kept as the bin number k: the claims *)
(* are about which bins are averaged, not about their values.              *)

BandEdges == {0, 25, 50, 60}

\* np.arange(0, 0.5 + 1./T, 1./T) in units of 1/(2T): start 0, stop T + 2,
\* step 2; entry k is the frequency k/T.  The arithmetic is exact here; in
\* doubles the quotient that sets the length can round up past an integer.
ff(T) == Range(0, T + 2, 2)

\* ind = np.logical_and(ff > noise_range[0], ff <= noise_range[1])
ind(T, lo, hi) ==
    [j \in 1..Len(ff(T)) |->
        /\ ff(T)[j] * 100 > lo * 2 * T
        /\ ff(T)[j] * 100 <= hi * 2 * T]

\* the length of np.fft.rfft(Y, axis=-1) along the last axis
rfft_len(T) == T \div 2 + 1

\* psdx[..., ind]: the bins a boolean mask selects from an axis of length n.
\* A mask of another length is an IndexError in numpy >= 1.13; older
\* releases warn and take the positions of its True entries.
bool_index(n, mask, strict) ==
    LET sel == {k \in 0..(Len(mask) - 1) : At(mask, k)}
    IN  IF Len(mask) # n /\ strict THEN Raise("IndexError")
        ELSE IF \E k \in sel : k >= n THEN Raise("IndexError")
        ELSE Return(sel)

\* mean_psd: the three branches all reduce y/2 along the last axis; the
\* reduction of an empty axis is NaN (numpy warns, nothing is raised)
mean_psd(y, method) ==
    IF y = {} THEN [nan |-> TRUE, method |-> method, bins |-> y]
    ELSE IF method = "mean" THEN [nan |-> FALSE, method |-> "mean", bins |-> y]
    ELSE IF method = "median" THEN [nan |-> FALSE, method |-> "median", bins |-> y]
    ELSE [nan |-> FALSE, method |-> "logmexp", bins |-> y]

\* get_noise_fft; the mask it built is returned with the outcome
get_noise_fft(ns, dims, T, noise_range, noise_method, strict) ==
    LET mask == ind(T, noise_range[1], noise_range[2])
    IN  IF dims > 1
        THEN LET picked == bool_index(rfft_len(T), mask, strict)
             IN  IF picked.kind = "raise"
                 THEN [picked EXCEPT !.kind = "raise"] @@ [mask |-> mask]
                 ELSE Return(mean_psd(picked.val, noise_method)) @@ [mask |-> mask]
        ELSE IF "rfft" \notin ns
             THEN Raise("NameError") @@ [mask |-> mask]
             ELSE Raise("ValueError") @@ [mask |-> mask]   \* np.fliplr of a 1D array

InitNoise ==
    /\ fn = "get_noise_fft"
    /\ \E dims \in 1..2, T \in 2..MaxT, lo \in BandEdges, hi \in BandEdges,
          m \in Methods, strict \in BOOLEAN :
          args = [dims |-> dims, T |-> T, noise_range |-> <<lo, hi>>,
                  noise_method |-> m, strict |-> strict]
    /\ names \in Namespaces
    /\ ret = Pending
    /\ NoOrchestrator

CallGetNoiseFft ==
    /\ fn = "get_noise_fft"
    /\ ret = Pending
    /\ ret' = get_noise_fft(names, args.dims, args.T, args.noise_range,
                            args.noise_method, args.strict)
    /\ UNCHANGED <<fn, args, pc, pending, workers, sn_s, writes, failed, names>>

NextNoise == CallGetNoiseFft

SpecNoise == InitNoise /\ [][NextNoise]_vars

\* the bins of the one-sided spectrum of a trace of length T that lie in (lo, hi]
BandBins(T, lo, hi) ==
    {k \in 0..(T \div 2) : k * 100 > lo * T /\ k * 100 <= hi * T}

\* C4: get_noise_fft, called on a pixels x time matrix, raises
\* InvalidParameter, and returns no value, whenever the band selects no bin
\* of the spectrum (band [0.6, 0.5] is such a band).
C4_EmptyBandRaises ==
    (fn = "get_noise_fft" /\ ret # Pending /\ args.dims > 1
        /\ BandBins(args.T, args.noise_range[1], args.noise_range[2]) = {})
    => ret.kind = "raise" /\ ret.err = "InvalidParameter"

\* C10: for every T >= 2, the mask built for a pixels x time matrix has one entry per bin of the one-sided spectrum, selects
\* exactly the bins with lo < k/T <= hi, and indexing the spectrum with it
\* never fails.
C10_MaskMatchesSpectrum ==
    (fn = "get_noise_fft" /\ ret # Pending /\ args.dims > 1) =>
        /\ Len(ret.mask) = args.T \div 2 + 1
        /\ {k \in 0..(Len(ret.mask) - 1) : At(ret.mask, k)}
              = BandBins(args.T, args.noise_range[1], args.noise_range[2])
        /\ ~(ret.kind = "raise" /\ ret.err = "IndexError")

----------------------------------------------------------------------------
(* find_unsaturated_pixels, on a 2D movie (pixels x time) of integers >= 1.*)
(* saturationThreshold is in tenths, saturationTime in thousandths; the    *)
(* optional saturationValue is <<>> for None and <<v>> for the value v.    *)

RECURSIVE SeqMax(_)
SeqMax(s) ==
    IF Len(s) = 1 THEN s[1]
    ELSE LET m == SeqMax(Tail(s)) IN IF s[1] > m THEN s[1] ELSE m

\* np.max(Y)
MovieMax(Y) == SeqMax([i \in 1..Len(Y) |-> SeqMax(Y[i])])

RECURSIVE Pow2(_)
Pow2(e) == IF e = 0 THEN 1 ELSE 2 * Pow2(e - 1)

\* np.ceil(np.log2(m)) for an integer m >= 1
RECURSIVE CeilLog2From(_, _)
CeilLog2From(m, e) == IF Pow2(e) >= m THEN e ELSE CeilLog2From(m, e + 1)
CeilLog2(m) == CeilLog2From(m, 0)

\* saturationValue = np.power(2, np.ceil(np.log2(np.max(Y)))) - 1
default_saturationValue(Y) == Pow2(CeilLog2(MovieMax(Y))) - 1

\* Ysat = (Y >= saturationThreshold*saturationValue), one row
Ysat(row, thr10, satval) == [t \in 1..Len(row) |-> row[t] * 10 >= thr10 * satval]

\* pix = np.mean(Ysat, Y.ndim-1) > saturationTime, one pixel
pix(row, thr10, satval, time1000) ==
    Cardinality({t \in 1..Len(row) : Ysat(row, thr10, satval)[t]}) * 1000
        > time1000 * Len(row)

\* np.where(flags): the indices of the True entries
where(flags) == {i \in 0..(Len(flags) - 1) : At(flags, i)}

find_unsaturated_pixels(Y, saturationValue, thr10, time1000) ==
    LET satval == IF saturationValue = <<>> THEN default_saturationValue(Y)
                  ELSE saturationValue[1]
        flags == [i \in 1..Len(Y) |-> pix(Y[i], thr10, satval, time1000)]
    IN  Return(where(flags))

DefaultThreshold == 9      \* saturationThreshold = 0.9
DefaultTime == 5           \* saturationTime = 0.005

InitSat ==
    /\ fn = "find_unsaturated_pixels"
    /\ \E n \in 1..SatPix :
       \E Y \in [1..n -> [1..SatT -> 1..MaxVal]],
          sv \in {<<>>, <<MaxVal + 1>>},
          thr \in {DefaultThreshold, 5},
          tm \in {DefaultTime, 500} :
          args = [Y |-> Y, saturationValue |-> sv,
                  saturationThreshold |-> thr, saturationTime |-> tm]
    /\ names = ModuleGlobals
    /\ ret = Pending
    /\ NoOrchestrator

CallFindUnsaturated ==
    /\ fn = "find_unsaturated_pixels"
    /\ ret = Pending
    /\ ret' = find_unsaturated_pixels(args.Y, args.saturationValue,
                  args.saturationThreshold, args.saturationTime)
    /\ UNCHANGED <<fn, args, pc, pending, workers, sn_s, writes, failed, names>>

NextSat == CallFindUnsaturated

SpecSat == InitSat /\ [][NextSat]_vars

\* the saturation level a call works with
SatLevel == IF args.saturationValue = <<>> THEN default_saturationValue(args.Y)
            ELSE args.saturationValue[1]

\* pixel i (0-based) is saturated: the fraction of its samples at or above
\* saturationThreshold*saturationValue exceeds saturationTime
Saturated(i) ==
    LET row == args.Y[i + 1]
        hot == {t \in 1..Len(row) : row[t] * 10 >= args.saturationThreshold * SatLevel}
    IN  Cardinality(hot) * 1000 > args.saturationTime * Len(row)

\* C5: find_unsaturated_pixels returns exactly the pixels that are not
\* saturated.
C5_ReturnsUnsaturated ==
    (fn = "find_unsaturated_pixels" /\ ret # Pending) =>
        ret.val = {i \in 0..(Len(args.Y) - 1) : ~Saturated(i)}

----------------------------------------------------------------------------
(* axcov and nextpow2, in exact integer arithmetic.                        *)
(*                                                                         *)
(* For a trace of T integers the de-meaned trace is kept times T, so the   *)
(* autocovariance np.real(xcov/T) is kept times T^3.                       *)

RECURSIVE SeqSum(_)
SeqSum(s) == IF s = <<>> THEN 0 ELSE s[1] + SeqSum(Tail(s))

\* nextpow2: exponent = 0; while avalue > 2**exponent: exponent += 1
RECURSIVE nextpow2_loop(_, _)
nextpow2_loop(avalue, exponent) ==
    IF avalue > Pow2(exponent) THEN nextpow2_loop(avalue, exponent + 1)
    ELSE exponent
nextpow2(value) == nextpow2_loop(IF value < 0 THEN 0 - value ELSE value, 0)

\* data - np.mean(data), times T
demean(data) ==
    LET total == SeqSum(data)
    IN  [t \in 1..Len(data) |-> Len(data) * data[t] - total] \o <<>>

\* fft(x, n) pads x with zeros to length n; ifft(np.square(np.abs(.))) of
\* that is the circular autocorrelation of the padded trace:
\* entry m is the sum over t of x[t]*x[(t+m) mod n]
padded(x, n) == [t \in 1..n |-> IF t <= Len(x) THEN x[t] ELSE 0] \o <<>>
circ_autocorr(x, n) ==
    LET xp == padded(x, n)
    IN  [m \in 1..n |->
            SeqSum([t \in 1..n |-> xp[t] * xp[((t - 1 + m - 1) % n) + 1]])] \o <<>>

\* s[idxs] for a sequence idxs of Python indices
Take(s, idxs) == [k \in 1..Len(idxs) |-> At(s, idxs[k])] \o <<>>

\* np.concatenate([xcov[np.arange(xcov.size - maxlag, xcov.size)],
\*                 xcov[np.arange(0, maxlag + 1)]])
axcov_window(xcov, maxlag) ==
    Take(xcov, Range(Len(xcov) - maxlag, Len(xcov), 1))
        \o Take(xcov, Range(0, maxlag + 1, 1))

axcov(ns, data, maxlag) ==
    LET bins == Len(data)
        n == Pow2(nextpow2(2 * bins - 1))
    IN  IF "fft" \notin ns \/ "ifft" \notin ns THEN Raise("NameError")
        ELSE Return(axcov_window(circ_autocorr(demean(data), n), maxlag))

InitAxcov ==
    /\ fn = "axcov"
    /\ \E T \in 1..AxT :
       \E data \in [1..T -> 0..AxVal], maxlag \in 0..(T - 1) :
          args = [data |-> data, maxlag |-> maxlag]
    /\ names \in Namespaces
    /\ ret = Pending
    /\ NoOrchestrator

CallAxcov ==
    /\ fn = "axcov"
    /\ ret = Pending
    /\ ret' = axcov(names, args.data, args.maxlag)
    /\ UNCHANGED <<fn, args, pc, pending, workers, sn_s, writes, failed, names>>

NextAxcov == CallAxcov

SpecAxcov == InitAxcov /\ [][NextAxcov]_vars

\* C6: for every trace of length T and every maxlag < T, axcov returns a
\* sequence of length 2*maxlag+1 that is symmetric about index maxlag.
C6_AxcovSymmetric ==
    (fn = "axcov" /\ ret # Pending) =>
        /\ ret.kind = "return"
        /\ Len(ret.val) = 2 * args.maxlag + 1
        /\ \A k \in 0..args.maxlag :
              At(ret.val, args.maxlag - k) = At(ret.val, args.maxlag + k)

----------------------------------------------------------------------------
(* estimate_time_constant.                                                 *)
(*                                                                         *)
(* An optional argument is <<>> for None and <<v>> for the value v.  All   *)
(* entries of XC, A and gv are kept times T^3, like those of axcov, so the *)
(* noise variance sn[i]**2 enters as T^3 * sn[i]^2.  The call returns      *)
(* g = pinv(A).gv; the model returns the system (A, gv) that determines g, *)
(* with the number of axcov calls made and the arguments read so far.      *)

\* scipy.linalg.toeplitz(c, r): first column c, first row r (r[0] ignored)
toeplitz(c, r) ==
    [a \in 1..Len(c) |-> [b \in 1..Len(r) |->
        IF a >= b THEN c[a - b + 1] ELSE r[b - a + 1]] \o <<>>] \o <<>>

\* M - v * np.eye(rows, cols)
minus_eye(M, v) ==
    [a \in 1..Len(M) |-> [b \in 1..Len(M[a]) |->
        IF a = b THEN M[a][b] - v ELSE M[a][b]] \o <<>>] \o <<>>

\* pixels = np.arange(np.size(Y)/np.shape(Y)[-1])
all_pixels(Y) == Range(0, Len(Y), 1)

\* the lag depth of a block: lags += p, and lags -= p when noise is excluded
eff_lags(lags, p, include_noise) ==
    IF ~include_noise THEN (lags + p) - p ELSE lags + p

\* XC = XC[:, np.arange(lags-1, -1, -1)] for one row (lags is lags + p here)
reversed_half(xc, L) == Take(xc, Range(L - 1, 0 - 1, 0 - 1))

\* noise excluded, pixel i: the Toeplitz block and the rows of gv
block_no_noise(xcr, lags, p) ==
    toeplitz(Take(xcr, Range(p - 1, p + lags - 1, 1)),
             Take(xcr, Range(p - 1, 0 - 1, 0 - 1)))
target_no_noise(xcr, lags, p) == Take(xcr, Range(p, Len(xcr), 1))

\* noise included, pixel i: the Toeplitz block less sn**2 * eye, and gv
block_noise(xc, L, p, snv, T) ==
    minus_eye(toeplitz(Take(xc, Range(L, 2 * L, 1)),
                       Take(xc, Range(L, L + p, 1))),
              T * T * T * snv * snv)
target_noise(xc, L) == Take(xc, Range(L + 1, Len(xc), 1))

\* the index into sn that the block of the i-th selected pixel uses
sn_index(i, pixels) == i

\* X[i*lags + np.arange(lags)] = blocks[i] for every i
stack(blocks, n) ==
    [row \in 1..(Len(blocks) * n) |->
        blocks[((row - 1) \div n) + 1][((row - 1) % n) + 1]] \o <<>>

\* lines 286-315, p given
fit(ns, Y, sn, p, lags, include_noise, pixels_opt) ==
    LET pixels == IF pixels_opt = <<>> THEN all_pixels(Y) ELSE pixels_opt[1]
        npx == Len(pixels)
        T == Len(Y[1])
        L == lags + p
        n == eff_lags(lags, p, include_noise)
        XC == [j \in 1..npx |-> axcov(ns, At(Y, pixels[j]), L)] \o <<>>
        XCr == [j \in 1..npx |-> reversed_half(XC[j].val, L)] \o <<>>
        blocks == [j \in 1..npx |->
                     IF ~include_noise
                     THEN block_no_noise(XCr[j], n, p)
                     ELSE block_noise(XC[j].val, n, p,
                                      At(sn, sn_index(j - 1, pixels)), T)] \o <<>>
        targets == [j \in 1..npx |->
                     IF ~include_noise
                     THEN target_no_noise(XCr[j], n, p)
                     ELSE target_noise(XC[j].val, n)] \o <<>>
    IN  IF npx > 0 /\ XC[1].kind = "raise"
        THEN XC[1] @@ [axcov_calls |-> 1, read |-> {"pixels", "Y"}]
        ELSE Return([A |-> stack(blocks, n), gv |-> stack(targets, n)])
                @@ [axcov_calls |-> npx,
                    read |-> {"pixels", "Y"}
                             \cup (IF include_noise THEN {"sn"} ELSE {})]

\* (mutation) a missing p falls back to the docstring's "default: 2"
estimate_time_constant_default_p(ns, Y, sn, p, lags, include_noise, pixels) ==
    fit(ns, Y, sn, IF p = <<>> THEN 2 ELSE p[1], lags, include_noise, pixels)

estimate_time_constant(ns, Y, sn, p, lags, include_noise, pixels) ==
    IF p = <<>>
    THEN Raise("Exception: You need to define p")
            @@ [axcov_calls |-> 0, read |-> {}]
    ELSE fit(ns, Y, sn, p[1], lags, include_noise, pixels)

\* the traces a pixel of the movie can hold, of length T
Rows(T) ==
    {[t \in 1..T |-> t], [t \in 1..T |-> t % 2],
     [t \in 1..T |-> IF t <= 2 THEN 3 ELSE 0]}

\* the non-empty ascending index lists over n pixels
RECURSIVE Ascending(_)
Ascending(S) ==
    IF S = {} THEN <<>>
    ELSE LET m == CHOOSE x \in S : \A y \in S : x <= y
         IN  <<m>> \o Ascending(S \ {m})
PixelLists(n) == {Ascending(S) : S \in (SUBSET (0..(n - 1))) \ {{}}}

InitAR ==
    /\ fn = "estimate_time_constant"
    /\ \E Y \in [1..ArN -> Rows(MaxP + MaxLags + 1)],
          base \in 1..MaxSn,
          p \in {<<>>} \cup {<<q>> : q \in 1..MaxP},
          lags \in 1..MaxLags,
          include_noise \in BOOLEAN,
          pixels \in {<<>>} \cup {<<l>> : l \in PixelLists(ArN)} :
          args = [Y |-> Y, sn |-> [i \in 1..ArN |-> base + i - 1], p |-> p,
                  lags |-> lags, include_noise |-> include_noise,
                  pixels |-> pixels]
    /\ names \in Namespaces
    /\ ret = Pending
    /\ NoOrchestrator

CallEstimateTimeConstant ==
    /\ fn = "estimate_time_constant"
    /\ ret = Pending
    /\ ret' = estimate_time_constant(names, args.Y, args.sn, args.p, args.lags,
                                     args.include_noise, args.pixels)
    /\ UNCHANGED <<fn, args, pc, pending, workers, sn_s, writes, failed, names>>

NextAR == CallEstimateTimeConstant

SpecAR == InitAR /\ [][NextAR]_vars

----------------------------------------------------------------------------
(* Claims about estimate_time_constant.                                    *)

Called == fn = "estimate_time_constant" /\ ret # Pending

\* the pixel list, lag depths and trace length of the call
SelPixels == IF args.pixels = <<>> THEN all_pixels(args.Y) ELSE args.pixels[1]
TraceLen == Len(args.Y[1])

\* rows (j-1)*n+1 .. j*n of a stacked matrix or vector
BlockOf(X, j, n) == [a \in 1..n |-> X[(j - 1) * n + a]]

C8_NoiseOfSamePixel ==
    (Called /\ ret.kind = "return" /\ args.include_noise) =>
        LET L == args.lags + args.p[1]
        IN  \A j \in 1..Len(SelPixels) :
              BlockOf(ret.val.A, j, L)
                = block_noise(axcov(names, At(args.Y, SelPixels[j]), L).val,
                              L, args.p[1], At(args.sn, SelPixels[j]), TraceLen)

\* C9: for every pixel selection, p, lags and both values of include_noise,
\* estimate_time_constant solves a system whose matrix A has npx*lags rows
\* of p entries and whose target has npx*lags entries, lags being the lag
\* depth passed by the caller.
C9_SystemShape ==
    (Called /\ args.p # <<>>) =>
        /\ ret.kind = "return"
        /\ Len(ret.val.A) = Len(SelPixels) * args.lags
        /\ \A a \in 1..Len(ret.val.A) : Len(ret.val.A[a]) = args.p[1]
        /\ Len(ret.val.gv) = Len(SelPixels) * args.lags

====
